---- MODULE Spec2Model ----
(***************************************************************************)
(* Model of social_bot.py.  The file holds two revisions of the bot:       *)
(*   - the single-shot CLI revision (load_config, SocialBot.connect,       *)
(*     SocialBot.post, main(argv)), lines 38-141;                          *)
(*   - the thread-capable revision (SocialBot.post with media_files and    *)
(*     in_reply_to_id, SocialBot.create_thread, main()), lines 142-273.    *)
(* The relay loop that the design document describes is not part of the    *)
(* file; it is modelled from the design document (section 4.1).            *)
(*                                                                         *)
(* A text is modelled by its length (the code only measures it and passes  *)
(* it on), a platform identifier by a positive integer, Python's None by   *)
(* None (for strings) or NoId (for identifiers).                           *)
(***************************************************************************)
EXTENDS Integers, Sequences, FiniteSets, TLC

VARIABLES
    program,      \* which entry point runs: "single_shot", "thread", "relay"
    pc,           \* position of the running entry point
    cfgFile,      \* the file at args.config, as json.load would see it
    env,          \* MASTODON_API_BASE_URL / MASTODON_ACCESS_TOKEN
    args,         \* argparse namespace: message (its length), media
    config,       \* the dict load_config returned
    client,       \* SocialBot.client
    calls,        \* every call made to the Mastodon client library, in order
    lastPost,     \* the last SocialBot.post invocation and how it ended
    exitCode,     \* process exit status (Running while the process runs)
    uncaught,     \* the exception that escaped main, "" when none
    posts,        \* create_thread: the posts argument
    idx,          \* create_thread: number of loop iterations completed
    responses,    \* create_thread: responses
    previous_id,  \* create_thread: previous_id
    threadBase,   \* Len(calls) when create_thread was entered
    threadResult, \* how create_thread ended
    usedIds,      \* identifiers the platform has handed out
    cursor,       \* relay: the persisted cursor (NoId when the file is absent)
    newest,       \* relay: identifier of the source's newest item (NoId: none)
    lastIter,     \* relay: what the last iteration did
    publishes,    \* relay: every publish attempt, in order
    iters         \* relay: iterations run so far

vars == <<program, pc, cfgFile, env, args, config, client, calls, lastPost,
          exitCode, uncaught, posts, idx, responses, previous_id, threadBase,
          threadResult, usedIds, cursor, newest, lastIter, publishes, iters>>

cliVars == <<cfgFile, env, args, config, client>>
threadVars == <<posts, idx, responses, previous_id, threadBase, threadResult>>
relayVars == <<cursor, newest, lastIter, publishes, iters>>

--------------------------------------------------------------------------
(* Bounds of the model *)

MaxPosts == 3     \* longest posts list handed to create_thread
MaxMedia == 2     \* longest media_files list handed to post
MaxItem == 2      \* largest source item identifier in the relay loop
MaxIters == 3     \* relay iterations explored
NumDest == 2      \* configured relay destinations

(* Program constants *)

CHAR_LIMIT == 500 \* "Mastodon's character limit"

--------------------------------------------------------------------------
(* Python values *)

None == "<None>"                 \* None where a string is expected
NoId == 0                        \* None where an identifier is expected
Running == -1                    \* no exit status yet

Truthy(v) == v # None /\ v # ""  \* bool(v) for v a str or None

ContentLens == {1, CHAR_LIMIT, CHAR_LIMIT + 1}

--------------------------------------------------------------------------
(* The configuration file and the environment *)

FileVals == {None, "", "file"}   \* a field of the file: absent/null, empty, set
EnvVals == {None, "", "env"}     \* an environment variable: unset, empty, set

NoFields == [api_base_url |-> None, access_token |-> None]

\* kind: "absent" (open raises FileNotFoundError), "invalid_json" (json.load
\* raises JSONDecodeError), "json" (json.load returns a value).
\* top: whether the JSON value is an object (a dict) or anything else.
\* section: the "mastodon" key: missing, not an object, or an object.
ConfigFiles ==
    {[kind |-> "absent", top |-> "object", section |-> "missing", fields |-> NoFields],
     [kind |-> "invalid_json", top |-> "object", section |-> "missing", fields |-> NoFields],
     [kind |-> "json", top |-> "non_object", section |-> "missing", fields |-> NoFields],
     [kind |-> "json", top |-> "object", section |-> "missing", fields |-> NoFields],
     [kind |-> "json", top |-> "object", section |-> "non_object", fields |-> NoFields]}
    \cup {[kind |-> "json", top |-> "object", section |-> "object", fields |-> f] :
            f \in [api_base_url : FileVals, access_token : FileVals]}

Environments == [MASTODON_API_BASE_URL : EnvVals, MASTODON_ACCESS_TOKEN : EnvVals]

NoConfig == [outcome |-> "none", code |-> Running, exc |-> "",
             api_base_url |-> None, access_token |-> None]

ConfigReturn(api_base, access_token) ==
    [outcome |-> "return", code |-> Running, exc |-> "",
     api_base_url |-> api_base, access_token |-> access_token]

ConfigExit(n) == [NoConfig EXCEPT !.outcome = "exit", !.code = n]

ConfigRaise(e) == [NoConfig EXCEPT !.outcome = "raise", !.exc = e]

\* mastodon_cfg.get(field): the value, or "<AttributeError>" when mastodon_cfg
\* is not a dict.  cfg is {} when the file is absent.
AttributeError == "<AttributeError>"

mastodon_cfg_get(file, field) ==
    IF file.kind = "absent" \/ file.section = "missing" THEN None
    ELSE IF file.section = "non_object" THEN AttributeError
    ELSE file.fields[field]

\* os.getenv(name) or mastodon_cfg.get(field): `or` evaluates its right
\* operand only when the left one is falsy.
ResolveFileFirst(envValue, file, field) ==
    IF Truthy(mastodon_cfg_get(file, field)) THEN mastodon_cfg_get(file, field)
    ELSE envValue

Resolve(envValue, file, field) ==
    IF Truthy(envValue) THEN envValue ELSE mastodon_cfg_get(file, field)

\* if not api_base or not access_token: sys.exit(1); else return the dict.
ValidateBaseOnly(api_base, access_token) ==
    IF ~Truthy(api_base) THEN ConfigExit(1)
    ELSE ConfigReturn(api_base, access_token)

Validate(api_base, access_token) ==
    IF ~Truthy(api_base) \/ ~Truthy(access_token) THEN ConfigExit(1)
    ELSE ConfigReturn(api_base, access_token)

load_config(file, e) ==
    IF file.kind = "invalid_json" THEN ConfigExit(1)
    ELSE IF file.kind = "json" /\ file.top = "non_object" THEN
        ConfigRaise("AttributeError")            \* cfg.get on a non-dict
    ELSE
        LET api_base == Resolve(e.MASTODON_API_BASE_URL, file, "api_base_url")
            access_token == Resolve(e.MASTODON_ACCESS_TOKEN, file, "access_token")
        IN  IF api_base = AttributeError \/ access_token = AttributeError
            THEN ConfigRaise("AttributeError")   \* mastodon_cfg.get on a non-dict
            ELSE Validate(api_base, access_token)

--------------------------------------------------------------------------
(* Calls to the Mastodon client library *)

\* op: "Mastodon" (the constructor), "account_verify_credentials",
\* "media_post", "status_post".  ok: whether the call returned (FALSE: it
\* raised).  len: length of the content of the post the call belongs to.
\* nmedia: number of media_ids passed.  reply: in_reply_to_id passed.
\* id: identifier in the response.
Call(op, ok, len, nmedia, reply, id) ==
    [op |-> op, ok |-> ok, len |-> len, nmedia |-> nmedia, reply |-> reply, id |-> id]

Publishing == {"media_post", "status_post"}

NoPost == [revision |-> "none", len |-> 0, media |-> <<>>, reply |-> NoId,
           raised |-> "", calls |-> <<>>, response |-> NoId]

PostOutcome(revision, len, media, reply, raised, cs, response) ==
    [revision |-> revision, len |-> len, media |-> media, reply |-> reply,
     raised |-> raised, calls |-> cs, response |-> response]

--------------------------------------------------------------------------
(* Single-shot revision *)

\* --media: not given, the empty string, a path to no file, a path to a file.
MediaPaths == {None, "", "missing", "exists"}

\* SocialBot.connect.  ctorOk: Mastodon(...) returns; verifyOk:
\* account_verify_credentials returns.  Every exception is logged and re-raised.
connectSwallow(cfg, ctorOk, verifyOk) ==
    IF ~ctorOk THEN
        [client |-> None, raised |-> "", calls |-> <<Call("Mastodon", FALSE, 0, 0, NoId, NoId)>>]
    ELSE
        [client |-> "client", raised |-> "",
         calls |-> <<Call("Mastodon", TRUE, 0, 0, NoId, NoId),
                     Call("account_verify_credentials", verifyOk, 0, 0, NoId, NoId)>>]

connect(cfg, ctorOk, verifyOk) ==
    IF ~ctorOk THEN
        [client |-> None, raised |-> "Exception",
         calls |-> <<Call("Mastodon", FALSE, 0, 0, NoId, NoId)>>]
    ELSE
        [client |-> "client", raised |-> IF verifyOk THEN "" ELSE "Exception",
         calls |-> <<Call("Mastodon", TRUE, 0, 0, NoId, NoId),
                     Call("account_verify_credentials", verifyOk, 0, 0, NoId, NoId)>>]

\* SocialBot.post(content, visibility, media_path).  mediaOk: media_post
\* returns; statusOk: status_post returns; newId: identifier of the new status.
\* visibility is handed to status_post unchanged and is left out.
SingleShotPostSkipMissing(c, len, media_path, mediaOk, statusOk, newId) ==
    LET status == Call("status_post", statusOk, len, 0, NoId, IF statusOk THEN newId ELSE NoId)
    IN  PostOutcome("single_shot", len, <<media_path>>, NoId,
                    IF statusOk THEN "" ELSE "Exception", <<status>>,
                    IF statusOk THEN newId ELSE NoId)

SingleShotPost(c, len, media_path, mediaOk, statusOk, newId) ==
    IF c = None THEN
        PostOutcome("single_shot", len, <<media_path>>, NoId, "RuntimeError", <<>>, NoId)
    ELSE IF Truthy(media_path) /\ media_path = "missing" THEN
        PostOutcome("single_shot", len, <<media_path>>, NoId, "FileNotFoundError", <<>>, NoId)
    ELSE IF Truthy(media_path) /\ ~mediaOk THEN
        PostOutcome("single_shot", len, <<media_path>>, NoId, "Exception",
                    <<Call("media_post", FALSE, len, 0, NoId, NoId)>>, NoId)
    ELSE
        LET upload == IF Truthy(media_path)
                      THEN <<Call("media_post", TRUE, len, 0, NoId, NoId)>> ELSE <<>>
            status == Call("status_post", statusOk, len, Len(upload), NoId,
                           IF statusOk THEN newId ELSE NoId)
        IN  PostOutcome("single_shot", len, <<media_path>>, NoId,
                        IF statusOk THEN "" ELSE "Exception",
                        upload \o <<status>>, IF statusOk THEN newId ELSE NoId)

\* The platform hands out identifiers nobody holds yet.
MaxId == MaxPosts + 1
FreshIds == (1..MaxId) \ usedIds

\* parser.parse_args(argv): argparse exits with status 2 on a bad command line.
ParseArgs ==
    /\ program = "single_shot" /\ pc = "start"
    /\ \E valid \in BOOLEAN, len \in ContentLens, media \in MediaPaths :
        IF valid
        THEN /\ args' = [message |-> len, media |-> media]
             /\ pc' = "load_config"
             /\ UNCHANGED exitCode
        ELSE /\ pc' = "done"
             /\ exitCode' = 2
             /\ UNCHANGED args
    /\ UNCHANGED <<program, cfgFile, env, config, client, calls, lastPost, uncaught,
                   usedIds, threadVars, relayVars>>

\* config = load_config(args.config).  sys.exit(1) ends the process with
\* status 1; an exception that escapes main ends it with a traceback and
\* status 1.
LoadConfig ==
    /\ program = "single_shot" /\ pc = "load_config"
    /\ config' = load_config(cfgFile, env)
    /\ IF config'.outcome = "return"
       THEN pc' = "connect" /\ UNCHANGED <<exitCode, uncaught>>
       ELSE IF config'.outcome = "exit"
       THEN pc' = "done" /\ exitCode' = config'.code /\ UNCHANGED uncaught
       ELSE pc' = "done" /\ exitCode' = 1 /\ uncaught' = config'.exc
    /\ UNCHANGED <<program, cfgFile, env, args, client, calls, lastPost,
                   usedIds, threadVars, relayVars>>

\* bot = SocialBot(config); bot.connect() inside main's try.
Connect ==
    /\ program = "single_shot" /\ pc = "connect"
    /\ \E ctorOk \in BOOLEAN, verifyOk \in BOOLEAN :
        LET r == connect(config, ctorOk, verifyOk)
        IN  /\ client' = r.client
            /\ calls' = calls \o r.calls
            /\ IF r.raised = ""
               THEN pc' = "post" /\ UNCHANGED exitCode
               ELSE pc' = "done" /\ exitCode' = 1     \* except Exception: return 1
    /\ UNCHANGED <<program, cfgFile, env, args, config, lastPost, uncaught,
                   usedIds, threadVars, relayVars>>

\* bot.post(args.message, ...) inside main's try, then return 0.
Post ==
    /\ program = "single_shot" /\ pc = "post"
    /\ \E mediaOk \in BOOLEAN, statusOk \in BOOLEAN, newId \in FreshIds :
        LET r == SingleShotPost(client, args.message, args.media, mediaOk, statusOk, newId)
        IN  /\ lastPost' = r
            /\ calls' = calls \o r.calls
            /\ usedIds' = usedIds \cup ({r.response} \ {NoId})
            /\ exitCode' = IF r.raised = "" THEN 0 ELSE 1
    /\ pc' = "done"
    /\ UNCHANGED <<program, cfgFile, env, args, config, client, uncaught,
                   threadVars, relayVars>>

--------------------------------------------------------------------------

(* Thread-capable revision *)

\* Sequences over S of length at most n.
SeqsUpTo(S, n) == UNION {[1..k -> S] : k \in 0..n}

\* The first media file that stops the loop of post: it does not exist, or
\* its media_post raises.  0 when the loop runs to its end.
FirstBad(media_files, uploadOk) ==
    LET bad == {i \in 1..Len(media_files) :
                    media_files[i] = "missing" \/ ~uploadOk[i]}
    IN  IF bad = {} THEN 0 ELSE CHOOSE i \in bad : \A j \in bad : i <= j

\* SocialBot.post(content, media_files, visibility, scheduled_at,
\* in_reply_to_id).  uploadOk[i]: media_post of the i-th file returns;
\* statusOk: status_post returns; newId: the identifier in its response.
\* Every exception raised inside, PostError included, leaves as a PostError.
\* visibility and scheduled_at are handed to status_post unchanged and are
\* left out; a None in_reply_to_id (NoId) is removed from the parameters.
postNoReply(len, media_files, in_reply_to_id, uploadOk, statusOk, newId) ==
    LET status == Call("status_post", statusOk, len, 0, NoId,
                       IF statusOk THEN newId ELSE NoId)
    IN  IF len > CHAR_LIMIT
        THEN PostOutcome("thread", len, media_files, in_reply_to_id, "PostError", <<>>, NoId)
        ELSE PostOutcome("thread", len, media_files, in_reply_to_id,
                         IF statusOk THEN "" ELSE "PostError", <<status>>,
                         IF statusOk THEN newId ELSE NoId)

post(len, media_files, in_reply_to_id, uploadOk, statusOk, newId) ==
    IF len > CHAR_LIMIT THEN
        PostOutcome("thread", len, media_files, in_reply_to_id, "PostError", <<>>, NoId)
    ELSE
        LET k == FirstBad(media_files, uploadOk)
            uploaded == IF k = 0 THEN Len(media_files) ELSE k - 1
            uploads == [i \in 1..uploaded |-> Call("media_post", TRUE, len, 0, NoId, NoId)]
            failed == IF k > 0 /\ media_files[k] = "exists"
                      THEN <<Call("media_post", FALSE, len, 0, NoId, NoId)>> ELSE <<>>
            status == Call("status_post", statusOk, len, uploaded, in_reply_to_id,
                           IF statusOk THEN newId ELSE NoId)
        IN  IF k > 0
            THEN PostOutcome("thread", len, media_files, in_reply_to_id, "PostError",
                             uploads \o failed, NoId)
            ELSE PostOutcome("thread", len, media_files, in_reply_to_id,
                             IF statusOk THEN "" ELSE "PostError",
                             uploads \o <<status>>, IF statusOk THEN newId ELSE NoId)

\* main: bot.post(...), a single post made before the thread.
ThreadMainPost ==
    /\ program = "thread" /\ pc = "start"
    /\ \E len \in ContentLens, media_files \in SeqsUpTo({"exists", "missing"}, MaxMedia),
          statusOk \in BOOLEAN, newId \in FreshIds :
        \E uploadOk \in [1..Len(media_files) -> BOOLEAN] :
            LET r == post(len, media_files, NoId, uploadOk, statusOk, newId)
            IN  /\ lastPost' = r
                /\ calls' = calls \o r.calls
                /\ usedIds' = usedIds \cup ({r.response} \ {NoId})
                /\ pc' = IF r.raised = "" THEN "posted" ELSE "raised"
    /\ UNCHANGED <<program, cliVars, exitCode, uncaught, threadVars, relayVars>>

\* create_thread(posts): responses = []; previous_id = None.
CreateThread ==
    /\ program = "thread" /\ pc \in {"start", "posted"}
    /\ \E p \in SeqsUpTo(ContentLens, MaxPosts) : posts' = p
    /\ idx' = 0
    /\ responses' = <<>>
    /\ previous_id' = NoId
    /\ threadBase' = Len(calls)
    /\ pc' = "thread_loop"
    /\ UNCHANGED <<program, cliVars, calls, lastPost, exitCode, uncaught,
                   threadResult, usedIds, relayVars>>

\* One iteration of the loop of create_thread.
ThreadStepKeepFirst(r) ==
    [responses |-> Append(responses, r.response),
     previous_id |-> IF previous_id = NoId THEN r.response ELSE previous_id]

ThreadStep(r) ==
    [responses |-> Append(responses, r.response), previous_id |-> r.response]

\* What an exception raised by self.post does to create_thread: nothing
\* catches it, the loop ends and the exception leaves create_thread.
ThreadRaiseContinue(r) ==
    [pc |-> "thread_loop",
     result |-> [status |-> "raised", value |-> <<>>, error |-> r.raised]]

ThreadRaise(r) ==
    [pc |-> "raised",
     result |-> [status |-> "raised", value |-> <<>>, error |-> r.raised]]

CreateThreadPost ==
    /\ program = "thread" /\ pc = "thread_loop" /\ idx < Len(posts)
    /\ \E statusOk \in BOOLEAN, newId \in FreshIds :
        LET r == post(posts[idx + 1], <<>>, previous_id, <<>>, statusOk, newId)
        IN  /\ lastPost' = r
            /\ calls' = calls \o r.calls
            /\ usedIds' = usedIds \cup ({r.response} \ {NoId})
            /\ idx' = idx + 1
            /\ IF r.raised = ""
               THEN /\ responses' = ThreadStep(r).responses
                    /\ previous_id' = ThreadStep(r).previous_id
                    /\ UNCHANGED <<pc, threadResult>>
               ELSE /\ pc' = ThreadRaise(r).pc
                    /\ threadResult' = ThreadRaise(r).result
                    /\ UNCHANGED <<responses, previous_id>>
    /\ UNCHANGED <<program, cliVars, exitCode, uncaught, posts, threadBase, relayVars>>

\* return responses, after the last iteration; main then ends.
CreateThreadReturn ==
    /\ program = "thread" /\ pc = "thread_loop" /\ idx = Len(posts)
    /\ threadResult' = [status |-> "returned", value |-> responses, error |-> ""]
    /\ pc' = "done"
    /\ exitCode' = 0
    /\ UNCHANGED <<program, cliVars, calls, lastPost, uncaught, posts, idx, responses,
                   previous_id, threadBase, usedIds, relayVars>>

\* main: except (ConfigError, PostError): logger.error(...); sys.exit(1).
ThreadMainCatch ==
    /\ program = "thread" /\ pc = "raised"
    /\ pc' = "done"
    /\ exitCode' = 1
    /\ UNCHANGED <<program, cliVars, calls, lastPost, uncaught, threadVars, usedIds,
                   relayVars>>

--------------------------------------------------------------------------

(* Relay loop (design document, section 4.1) *)

Destinations == 1..NumDest

\* Step 3: an item is new when there is one and its identifier differs from
\* the cursor.
IsNewIgnoreCursor(item, cur) == item # NoId

IsNew(item, cur) == item # NoId /\ item # cur

\* Step 4: publish is attempted on every destination in turn; a failure is
\* caught and logged.  outcome[d]: publish on destination d succeeds.
FanOutStopAtFailure(item, outcome) ==
    LET bad == {d \in Destinations : ~outcome[d]}
        last == IF bad = {} THEN NumDest ELSE CHOOSE d \in bad : \A e \in bad : d <= e
    IN  [d \in 1..last |-> [dest |-> d, item |-> item, ok |-> outcome[d]]]

FanOut(item, outcome) ==
    [d \in 1..NumDest |-> [dest |-> d, item |-> item, ok |-> outcome[d]]]

\* Step 5: after all destinations were attempted the item's identifier is
\* persisted as the cursor, whatever the outcomes.
AdvanceIfAllOk(item, attempts, cur) ==
    IF \A i \in 1..Len(attempts) : attempts[i].ok THEN item ELSE cur

Advance(item, attempts, cur) == item

\* One iteration: read the cursor, fetch the newest item (a fetch failure
\* counts as no item), fan out, persist the cursor, sleep.
RelayIteration ==
    /\ program = "relay" /\ pc = "loop" /\ iters < MaxIters
    /\ \E fetchOk \in BOOLEAN, outcome \in [Destinations -> BOOLEAN] :
        LET item == IF fetchOk THEN newest ELSE NoId
        IN  IF IsNew(item, cursor)
            THEN LET attempts == FanOut(item, outcome)
                 IN  /\ publishes' = publishes \o attempts
                     /\ cursor' = Advance(item, attempts, cursor)
                     /\ lastIter' = [kind |-> "new", item |-> item,
                                     attempted |-> [i \in 1..Len(attempts) |-> attempts[i].dest],
                                     failed |-> {d \in Destinations : ~outcome[d]}]
            ELSE /\ lastIter' = [kind |-> IF item = NoId THEN "no_item" ELSE "same",
                                 item |-> item, attempted |-> <<>>, failed |-> {}]
                 /\ UNCHANGED <<cursor, publishes>>
    /\ iters' = iters + 1
    /\ UNCHANGED <<program, pc, cliVars, calls, lastPost, exitCode, uncaught, threadVars,
                   usedIds, newest>>

\* The source platform receives a newer item.
SourceNewItem ==
    /\ program = "relay" /\ newest < MaxItem
    /\ \E n \in (newest + 1)..MaxItem : newest' = n
    /\ UNCHANGED <<program, pc, cliVars, calls, lastPost, exitCode, uncaught, threadVars,
                   usedIds, cursor, lastIter, publishes, iters>>

--------------------------------------------------------------------------

NoThreadResult == [status |-> "none", value |-> <<>>, error |-> ""]
NoIter == [kind |-> "none", item |-> NoId, attempted |-> <<>>, failed |-> {}]

Init ==
    /\ program \in {"single_shot", "thread", "relay"}
    /\ pc = IF program = "relay" THEN "loop" ELSE "start"
    /\ IF program = "single_shot"
       THEN cfgFile \in ConfigFiles /\ env \in Environments
       ELSE /\ cfgFile = [kind |-> "absent", top |-> "object", section |-> "missing",
                          fields |-> NoFields]
            /\ env = [MASTODON_API_BASE_URL |-> None, MASTODON_ACCESS_TOKEN |-> None]
    /\ args = [message |-> 0, media |-> None]
    /\ config = NoConfig
    /\ client = None
    /\ calls = <<>>
    /\ lastPost = NoPost
    /\ exitCode = Running
    /\ uncaught = ""
    /\ posts = <<>>
    /\ idx = 0
    /\ responses = <<>>
    /\ previous_id = NoId
    /\ threadBase = 0
    /\ threadResult = NoThreadResult
    /\ usedIds = {}
    /\ IF program = "relay"
       THEN newest \in 0..MaxItem /\ cursor \in 0..newest
       ELSE newest = NoId /\ cursor = NoId
    /\ lastIter = NoIter
    /\ publishes = <<>>
    /\ iters = 0

Next ==
    \/ ParseArgs
    \/ LoadConfig
    \/ Connect
    \/ Post
    \/ ThreadMainPost
    \/ CreateThread
    \/ CreateThreadPost
    \/ CreateThreadReturn
    \/ ThreadMainCatch
    \/ RelayIteration
    \/ SourceNewItem

Spec == Init /\ [][Next]_vars

--------------------------------------------------------------------------
(* Helpers of the properties *)

Fields == {"api_base_url", "access_token"}

EnvOf(field) ==
    IF field = "api_base_url" THEN env.MASTODON_API_BASE_URL ELSE env.MASTODON_ACCESS_TOKEN

\* The field as the file gives it; None when the file gives no such field.
FileOf(field) ==
    IF cfgFile.kind = "json" /\ cfgFile.top = "object" /\ cfgFile.section = "object"
    THEN cfgFile.fields[field] ELSE None

Idx(seq) == 1..Len(seq)

Verified(i) ==
    \E j \in 1..(i - 1) : calls[j].op = "account_verify_credentials" /\ calls[j].ok

NoPublishing == \A i \in Idx(calls) : calls[i].op \notin Publishing

\* The calls made since create_thread was entered.
ThreadCalls == SubSeq(calls, threadBase + 1, Len(calls))

Chained(tc, n) ==
    \A i \in 1..n :
        /\ tc[i].op = "status_post" /\ tc[i].ok
        /\ tc[i].len = posts[i]
        /\ tc[i].id # NoId
        /\ tc[i].reply = IF i = 1 THEN NoId ELSE tc[i - 1].id

--------------------------------------------------------------------------
(* C1: when main(argv) has ended after parsing its arguments, the exit     *)
(* status is 0 exactly when load_config, connect and post all succeeded,   *)
(* it is 1 otherwise, and no exception has escaped main.                   *)
C1_ExitCodeContract ==
    (program = "single_shot" /\ pc = "done" /\ exitCode # 2) =>
        /\ uncaught = ""
        /\ exitCode \in {0, 1}
        /\ exitCode = 0 <=>
              /\ config.outcome = "return"
              /\ Verified(Len(calls) + 1)
              /\ lastPost.revision = "single_shot" /\ lastPost.raised = ""

\* The same without the clause on escaping exceptions: the exit statuses
\* alone.
ExitStatusOnly ==
    (program = "single_shot" /\ pc = "done" /\ exitCode # 2) =>
        /\ exitCode \in {0, 1}
        /\ exitCode = 0 <=>
              /\ config.outcome = "return"
              /\ Verified(Len(calls) + 1)
              /\ lastPost.revision = "single_shot" /\ lastPost.raised = ""

(* C2: in a run of main, every media_post or status_post call comes after  *)
(* load_config returned and after a successful account_verify_credentials; *)
(* a run whose configuration is rejected or whose connection fails ends    *)
(* with a non-zero exit status and no publishing call.                     *)
C2_FailFast ==
    program = "single_shot" =>
        /\ \A i \in Idx(calls) :
              calls[i].op \in Publishing => config.outcome = "return" /\ Verified(i)
        /\ (pc = "done" /\ exitCode # 2 /\ ~(config.outcome = "return" /\ Verified(Len(calls) + 1)))
              => exitCode \notin {0, Running} /\ NoPublishing

C2_Witness ==
    /\ program = "single_shot" /\ pc = "done"
    /\ \E j \in Idx(calls) : calls[j].op = "account_verify_credentials" /\ ~calls[j].ok

(* C3, as stated: once load_config has run, a missing file, a malformed    *)
(* file or a mandatory field given by neither the environment nor the file *)
(* has ended the process with a non-zero status before any connection      *)
(* attempt.                                                                *)
Malformed == cfgFile.kind = "invalid_json" \/ (cfgFile.kind = "json" /\ cfgFile.top = "non_object")

FieldMissing == \E f \in Fields : ~Truthy(EnvOf(f)) /\ ~Truthy(FileOf(f))

Fatal == config.outcome \in {"exit", "raise"} /\ exitCode \notin {0, Running} /\ calls = <<>>

C3_MissingFileFatal ==
    (program = "single_shot" /\ config.outcome # "none"
        /\ (cfgFile.kind = "absent" \/ Malformed \/ FieldMissing)) => Fatal

(* C3, amended: a malformed file or a mandatory field given by neither the *)
(* environment nor the file is always fatal before any connection attempt; *)
(* a missing file alone is not: load_config then returns the environment's *)
(* values when both variables are set and non-empty.                       *)
C3_MalformedOrMissingFieldFatal ==
    (program = "single_shot" /\ config.outcome # "none") =>
        /\ (Malformed \/ FieldMissing) => Fatal
        /\ (cfgFile.kind = "absent" /\ ~FieldMissing) => config.outcome = "return"

C3_Witness ==
    /\ program = "single_shot" /\ pc = "done"
    /\ cfgFile.kind = "json" /\ cfgFile.section = "object"
    /\ cfgFile.fields.api_base_url = "file" /\ cfgFile.fields.access_token = None
    /\ env.MASTODON_ACCESS_TOKEN = None
    /\ config.outcome = "exit" /\ exitCode = 1

C5_OversizeRejected ==
    /\ \A i \in Idx(calls) : calls[i].op \in Publishing => calls[i].len <= CHAR_LIMIT
    /\ (lastPost.revision # "none" /\ lastPost.len > CHAR_LIMIT)
          => lastPost.raised # "" /\ lastPost.calls = <<>>

\* The same for the thread-capable revision alone.
ThreadOversizeRejected ==
    (lastPost.revision = "thread" /\ lastPost.len > CHAR_LIMIT)
        => lastPost.raised = "PostError" /\ lastPost.calls = <<>>

(* C6: a post given a media path that names no file fails (with PostError  *)
(* in the thread-capable revision, with exit status 1 in the single-shot   *)
(* revision) and makes no status_post call.                                *)
C6_MissingMediaFails ==
    (lastPost.revision # "none" /\ \E i \in Idx(lastPost.media) : lastPost.media[i] = "missing") =>
        /\ lastPost.raised # ""
        /\ \A i \in Idx(lastPost.calls) : lastPost.calls[i].op # "status_post"
        /\ lastPost.revision = "thread" => lastPost.raised = "PostError"
        /\ (lastPost.revision = "single_shot" /\ pc = "done") => exitCode = 1

C6_Witness ==
    /\ lastPost.revision = "single_shot" /\ lastPost.media = <<"missing">>
    /\ pc = "done" /\ exitCode = 1

(* C7: when create_thread returns, one status was published per post, in   *)
(* list order, the first without in_reply_to_id and each later one with    *)
(* the identifier returned for the post before it, and the returned list   *)
(* holds the responses in that order.                                      *)
C7_ThreadChaining ==
    threadResult.status = "returned" =>
        /\ Len(ThreadCalls) = Len(posts)
        /\ Chained(ThreadCalls, Len(posts))
        /\ Len(threadResult.value) = Len(posts)
        /\ \A i \in Idx(posts) : threadResult.value[i] = ThreadCalls[i].id

C7_Witness ==
    /\ threadResult.status = "returned"
    /\ Len(posts) = 3 /\ threadBase > 0

(* C10: when a post of create_thread fails, the posts before it were       *)
(* published and chained, the failing post is the last one attempted, a    *)
(* PostError leaves create_thread and no list is returned.                 *)
C10_ThreadStopsAtFailure ==
    threadResult.status = "raised" =>
        /\ pc \in {"raised", "done"}
        /\ idx \in Idx(posts)
        /\ threadResult.error = "PostError" /\ threadResult.value = <<>>
        /\ Len(ThreadCalls) \in {idx - 1, idx}
        /\ Chained(ThreadCalls, idx - 1)
        /\ Len(ThreadCalls) = idx =>
              /\ ThreadCalls[idx].op = "status_post" /\ ~ThreadCalls[idx].ok
              /\ ThreadCalls[idx].len = posts[idx]
        /\ Len(ThreadCalls) = idx - 1 => posts[idx] > CHAR_LIMIT

C10_Witness ==
    /\ threadResult.status = "raised" /\ pc = "done"
    /\ Len(posts) = 3 /\ idx = 2 /\ Len(ThreadCalls) = 2

(* C8: an iteration that finds the newest item's identifier equal to the   *)
(* cursor publishes nothing and leaves the cursor unchanged, and no item   *)
(* is ever published twice to the same destination.                        *)
NoRepublication ==
    \A i \in Idx(publishes) : \A j \in Idx(publishes) :
        (i < j /\ publishes[i].dest = publishes[j].dest) => publishes[i].item # publishes[j].item

C8_NoRepublication ==
    /\ [][(program = "relay" /\ iters' = iters + 1 /\ newest = cursor)
            => (publishes' = publishes /\ cursor' = cursor)]_vars
    /\ []NoRepublication

C8_Witness ==
    /\ program = "relay" /\ lastIter.kind = "same"
    /\ lastIter.item = cursor /\ Len(publishes) > 0

(* C9: after an iteration that found a new item, publish was attempted on  *)
(* every destination in turn whatever failed, the cursor is the item's     *)
(* identifier, and the loop is still running.                              *)
C9_DestinationIndependence ==
    program = "relay" =>
        /\ pc = "loop" /\ exitCode = Running
        /\ lastIter.kind = "new" =>
              /\ lastIter.attempted = [d \in 1..NumDest |-> d]
              /\ cursor = lastIter.item
              /\ Len(publishes) >= NumDest
              /\ \A d \in Destinations :
                    LET a == publishes[Len(publishes) - NumDest + d]
                    IN  a.dest = d /\ a.item = lastIter.item /\ a.ok = (d \notin lastIter.failed)

C9_Witness ==
    /\ program = "relay" /\ lastIter.kind = "new"
    /\ 1 \in lastIter.failed /\ 2 \notin lastIter.failed
    /\ cursor = lastIter.item

====
